---- MODULE Spec2Model ----
(***************************************************************************)
(* Survey Nest (src/app.py): form designer, XLSForm export / import and    *)
(* simulated data collection of one open project; then the credential      *)
(* store, the sessions and the project document they share.                *)
(*                                                                         *)
(* Text is a sequence of tokens.  A token is a character (" ", "_", "0",   *)
(* "a") or a word that the program only ever handles as a whole            *)
(* ("select_one", "None", "yes").  Concatenation is \o, so a type cell     *)
(* such as "select_one a" is <<"select_one", " ", "a">>.                   *)
(***************************************************************************)
EXTENDS Integers, Sequences, FiniteSets, TLC

VARIABLES
    form,    \* project["form"]: the ordered list of questions
    data,    \* project["data"]: the ordered list of submitted records
    clock,   \* the reading datetime.utcnow() gives, in milliseconds
    file,    \* what kc_projects.json holds of the project
    last,    \* the last handler that ran, its inputs and what it reported
    users,       \* kc_users.csv: the rows under the header, as written
    registered,  \* history: the password each username first registered with
    sessions,    \* st.session_state of every browser session
    disk         \* kc_projects.json: the document of all users' projects

vars == <<form, data, clock, file, last, users, registered, sessions, disk>>

\* the state beyond one open project
appVars == <<users, registered, sessions, disk>>

----------------------------------------------------------------------------
(* Bounds of the model.                                                    *)

MaxForm == 2
MaxData == 1
MaxClock == 1
MaxCodecForm == 2
MaxCollectForm == 2

----------------------------------------------------------------------------
(* Text helpers.                                                           *)

Digits == <<"0", "1", "2", "3", "4", "5", "6", "7", "8", "9">>

DigitSet == {Digits[i] : i \in 1..10}

DigitVal(t) == (CHOOSE i \in 1..10 : Digits[i] = t) - 1

\* str(n) of a non-negative int
RECURSIVE IntToStr(_)
IntToStr(n) ==
    IF n < 10 THEN <<Digits[n + 1]>>
    ELSE IntToStr(n \div 10) \o <<Digits[(n % 10) + 1]>>

\* int(s) of a string of decimal digits
RECURSIVE StrToInt(_)
StrToInt(s) ==
    IF s = <<>> THEN 0
    ELSE 10 * StrToInt(SubSeq(s, 1, Len(s) - 1)) + DigitVal(s[Len(s)])

IsIntStr(s) == s # <<>> /\ \A i \in 1..Len(s) : s[i] \in DigitSet

\* str.lower(), token by token
LowerTok(t) ==
    CASE t = "A" -> "a"
      [] t = "B" -> "b"
      [] t = "YES" -> "yes"
      [] t = "Yes" -> "yes"
      [] t = "TRUE" -> "true"
      [] t = "True" -> "true"
      [] t = "False" -> "false"
      [] t = "None" -> "none"
      [] t = "Required" -> "required"
      [] OTHER -> t

Lower(s) == [i \in 1..Len(s) |-> LowerTok(s[i])]

Whitespace == {" ", "\n"}

\* str.strip()
RECURSIVE Strip(_)
Strip(s) ==
    IF s = <<>> THEN s
    ELSE IF Head(s) \in Whitespace THEN Strip(Tail(s))
    ELSE IF s[Len(s)] \in Whitespace THEN Strip(SubSeq(s, 1, Len(s) - 1))
    ELSE s

\* ch.isalnum()
IsAlnum(t) == t \notin (Whitespace \cup {"_", "?", "/", "."})

\* s.startswith(p) for a one-token prefix p
StartsWith(s, p) == s # <<>> /\ Head(s) = p

HasSpace(s) == \E i \in 1..Len(s) : s[i] = " "

\* s.split(' ', 1)[1], for s containing a space
AfterFirstSpace(s) ==
    LET i == CHOOSE j \in 1..Len(s) :
                 s[j] = " " /\ \A k \in 1..(j - 1) : s[k] # " "
    IN SubSeq(s, i + 1, Len(s))

\* s.splitlines()
RECURSIVE SplitLines(_)
SplitLines(s) ==
    IF s = <<>> THEN <<>>
    ELSE IF \E i \in 1..Len(s) : s[i] = "\n"
         THEN LET i == CHOOSE j \in 1..Len(s) :
                           s[j] = "\n" /\ \A k \in 1..(j - 1) : s[k] # "\n"
              IN <<SubSeq(s, 1, i - 1)>> \o SplitLines(SubSeq(s, i + 1, Len(s)))
         ELSE <<s>>

----------------------------------------------------------------------------
(* Questions.                                                              *)

SelectTypes == {<<"select_one">>, <<"select_multiple">>}

\* the seven types the form designer offers (src/app.py:431)
DesignerTypes ==
    {<<"text">>, <<"integer">>, <<"decimal">>, <<"date">>,
     <<"select_one">>, <<"select_multiple">>, <<"note">>}

\* new_id(prefix): prefix, "_", the clock reading in milliseconds
new_id(prefix, t) == <<prefix, "_">> \o IntToStr(t)

Question(id, name, label, type, choices, required) ==
    [id |-> id, name |-> name, label |-> label, type |-> type,
     choices |-> choices, required |-> required]

\* the fields a form exchange is meant to preserve
Content(q) ==
    [name |-> q.name, label |-> q.label, type |-> q.type,
     choices |-> q.choices, required |-> q.required]

Contents(f) == [i \in 1..Len(f) |-> Content(f[i])]

----------------------------------------------------------------------------
(* Spreadsheet cells.  A cell of a workbook is blank, text or a number;    *)
(* a cell of a parsed frame is NaN, text, an int, a float or a bool.       *)

BlankCell == [k |-> "blank", s |-> <<>>, n |-> 0]
TextCell(s) == [k |-> "str", s |-> s, n |-> 0]
IntCell(n) == [k |-> "int", s |-> <<>>, n |-> n]
FloatCell(n) == [k |-> "float", s |-> <<>>, n |-> n]
BoolCell(b) == [k |-> "bool", s |-> <<>>, n |-> IF b THEN 1 ELSE 0]
NaN == [k |-> "nan", s |-> <<>>, n |-> 0]

EmptySheet == [cols |-> {}, rows |-> <<>>]

----------------------------------------------------------------------------
(* export_xlsform_to_bytes: the survey and choices tables, then the        *)
(* workbook pandas writes from them.                                       *)

\* SurveyRow as it would be if the list name were left out of the type cell
\* and the required flag written as a boolean
SurveyRow_Bare(q) ==
    [type |-> q.type,
     name |-> q.name,
     label |-> q.label,
     required |-> IF q.required THEN <<"True">> ELSE <<"False">>]

\* one dict of survey_data
SurveyRow(q) ==
    [type |-> IF q.type \in SelectTypes THEN q.type \o <<" ">> \o q.name
              ELSE q.type,
     name |-> q.name,
     label |-> q.label,
     required |-> IF q.required THEN <<"yes">> ELSE <<>>]

survey_data(f) == [i \in 1..Len(f) |-> SurveyRow(f[i])]

\* ChoiceRows as it would be with enumerate() left at its default start of 0
ChoiceRows_ZeroBased(q) ==
    [i \in 1..Len(q.choices) |->
        [list_name |-> q.name,
         name |-> <<"opt">> \o IntToStr(i - 1),
         label |-> q.choices[i]]]

\* the dicts of choices_data one question contributes
ChoiceRows(q) ==
    [i \in 1..Len(q.choices) |->
        [list_name |-> q.name,
         name |-> <<"opt">> \o IntToStr(i),
         label |-> q.choices[i]]]

RECURSIVE choices_data(_)
choices_data(f) ==
    IF f = <<>> THEN <<>> ELSE ChoiceRows(Head(f)) \o choices_data(Tail(f))

SurveyCols == {"type", "name", "label", "required"}
ChoicesCols == {"list_name", "name", "label"}

\* a text written through xlsxwriter: the empty string leaves the cell blank
WriteCell(s) == IF s = <<>> THEN BlankCell ELSE TextCell(s)

\* pd.DataFrame(list of dicts).to_excel: an empty list has no columns
to_excel(dicts, cols) ==
    IF dicts = <<>> THEN EmptySheet
    ELSE [cols |-> cols,
          rows |-> [i \in 1..Len(dicts) |->
                       [c \in cols |-> WriteCell(dicts[i][c])]]]

export_xlsform_to_bytes(f) ==
    [readable |-> TRUE,
     raiseAt |-> 0,
     sheets |-> IF choices_data(f) # <<>> THEN {"survey", "choices"}
                ELSE {"survey"},
     survey |-> to_excel(survey_data(f), SurveyCols),
     choices |-> to_excel(choices_data(f), ChoicesCols)]

----------------------------------------------------------------------------
(* pd.read_excel: every column is converted as a whole.  Blank cells and   *)
(* the default NA strings become NaN; a column whose other cells all read  *)
(* as numbers becomes numeric (float when it holds a NaN), one whose other *)
(* cells all read as booleans becomes bool, any other column is kept.      *)

NAStrings ==
    {<<"None">>, <<"NA">>, <<"N/A">>, <<"n/a">>, <<"NULL">>, <<"null">>,
     <<"NaN">>, <<"nan">>, <<"#N/A">>, <<"<NA>">>}

TrueStrings == {<<"True">>, <<"TRUE">>, <<"true">>}
FalseStrings == {<<"False">>, <<"FALSE">>, <<"false">>}

IsNACell(c) == c.k = "blank" \/ (c.k = "str" /\ c.s \in NAStrings)

IsNumericCell(c) == c.k = "int" \/ (c.k = "str" /\ IsIntStr(c.s))

IsBoolCell(c) == c.k = "str" /\ c.s \in (TrueStrings \cup FalseStrings)

NumVal(c) == IF c.k = "int" THEN c.n ELSE StrToInt(c.s)

ColumnKind(sheet, col) ==
    LET cells == {sheet.rows[i][col] : i \in 1..Len(sheet.rows)}
        live == {c \in cells : ~IsNACell(c)}
    IN IF live # {} /\ \A c \in live : IsNumericCell(c)
       THEN (IF live # cells THEN "float" ELSE "int")
       ELSE IF live # {} /\ \A c \in live : IsBoolCell(c) THEN "bool"
       ELSE "object"

ConvertCell(c, kind) ==
    IF IsNACell(c) THEN NaN
    ELSE CASE kind = "int" -> IntCell(NumVal(c))
           [] kind = "float" -> FloatCell(NumVal(c))
           [] kind = "bool" -> BoolCell(c.s \in TrueStrings)
           [] OTHER -> c

read_excel(sheet) ==
    [cols |-> sheet.cols,
     rows |-> [i \in 1..Len(sheet.rows) |->
                  [c \in sheet.cols |->
                      ConvertCell(sheet.rows[i][c], ColumnKind(sheet, c))]]]

\* pd.isna(x)
isna(c) == c.k = "nan"

\* str(x) of a frame value
PyStr(c) ==
    CASE c.k = "str" -> c.s
      [] c.k = "int" -> IntToStr(c.n)
      [] c.k = "float" -> IntToStr(c.n) \o <<".", "0">>
      [] c.k = "bool" -> IF c.n = 1 THEN <<"True">> ELSE <<"False">>
      [] OTHER -> <<"nan">>

\* the truth value Python gives a frame value
Truthy(c) ==
    CASE c.k = "str" -> c.s # <<>>
      [] c.k \in {"int", "float", "bool"} -> c.n # 0
      [] OTHER -> TRUE

----------------------------------------------------------------------------
(* import_xlsform.                                                         *)

RequiredWords == {<<"yes">>, <<"true">>, <<"1">>, <<"required">>}

\* line 190 then line 223
RequiredFlag(frame, row) ==
    LET q_required ==
            IF "required" \in frame.cols /\ ~isna(row["required"])
            THEN row["required"] ELSE BoolCell(FALSE)
    IN Truthy(q_required) /\ Lower(PyStr(q_required)) \in RequiredWords

\* lines 202-206: the text one choices row contributes, if any
ChoiceText(cframe, crow) ==
    IF "label" \in cframe.cols /\ ~isna(crow["label"])
    THEN <<PyStr(crow["label"])>>
    ELSE IF "name" \in cframe.cols /\ ~isna(crow["name"])
    THEN <<PyStr(crow["name"])>>
    ELSE <<>>

RECURSIVE ListChoices(_, _, _)
ListChoices(cframe, list_name, i) ==
    IF i > Len(cframe.rows) THEN <<>>
    ELSE (IF cframe.rows[i]["list_name"] = TextCell(list_name)
          THEN ChoiceText(cframe, cframe.rows[i]) ELSE <<>>)
         \o ListChoices(cframe, list_name, i + 1)

\* lines 193-206
RowChoices(q_type, q_name, hasChoices, cframe) ==
    IF StartsWith(q_type, "select_one") \/ StartsWith(q_type, "select_multiple")
    THEN LET list_name == IF HasSpace(q_type) THEN AfterFirstSpace(q_type)
                          ELSE q_name
         IN IF hasChoices /\ "list_name" \in cframe.cols
            THEN ListChoices(cframe, list_name, 1) ELSE <<>>
    ELSE <<>>

\* lines 209-214
NormalizedType(q_type) ==
    IF StartsWith(q_type, "select_one") THEN <<"select_one">>
    ELSE IF StartsWith(q_type, "select_multiple") THEN <<"select_multiple">>
    ELSE q_type

\* lines 184-226: the questions one survey row contributes (none or one)
RowQuestion(frame, row, hasChoices, cframe, t) ==
    IF isna(row["type"]) \/ isna(row["name"]) \/ isna(row["label"])
    THEN <<>>
    ELSE LET q_type == PyStr(row["type"])
             q_name == PyStr(row["name"])
             q_label == PyStr(row["label"])
         IN <<Question(new_id("q", t), q_name, q_label,
                       NormalizedType(q_type),
                       RowChoices(q_type, q_name, hasChoices, cframe),
                       RequiredFlag(frame, row))>>

\* the loop of lines 183-226 over rows i.., stopped where a row raises
RECURSIVE ParseRows(_, _, _, _, _, _)
ParseRows(frame, hasChoices, cframe, raiseAt, t, i) ==
    IF i > Len(frame.rows) THEN [ok |-> TRUE, questions |-> <<>>]
    ELSE IF i = raiseAt THEN [ok |-> FALSE, questions |-> <<>>]
    ELSE LET rest == ParseRows(frame, hasChoices, cframe, raiseAt, t, i + 1)
         IN [ok |-> rest.ok,
             questions |-> RowQuestion(frame, frame.rows[i], hasChoices,
                                       cframe, t) \o rest.questions]

\* lines 157-180 and the loop: success, and the questions built so far
ReadWorkbook(wb, t) ==
    IF ~wb.readable \/ "survey" \notin wb.sheets
    THEN [ok |-> FALSE, questions |-> <<>>]
    ELSE LET frame == read_excel(wb.survey)
             hasChoices == "choices" \in wb.sheets
             cframe == IF hasChoices THEN read_excel(wb.choices) ELSE EmptySheet
         IN IF ~({"type", "name", "label"} \subseteq frame.cols)
            THEN [ok |-> FALSE, questions |-> <<>>]
            ELSE ParseRows(frame, hasChoices, cframe, wb.raiseAt, t, 1)

\* import_xlsform as it would be if each question were appended to the
\* project's form as soon as its row is read
import_xlsform_Partial(wb, f, t) ==
    LET r == ReadWorkbook(wb, t)
    IN [ok |-> r.ok, form |-> f \o r.questions]

\* import_xlsform as it would be if the imported questions replaced the form
import_xlsform_Replace(wb, f, t) ==
    LET r == ReadWorkbook(wb, t)
    IN IF r.ok THEN [ok |-> TRUE, form |-> r.questions]
       ELSE [ok |-> FALSE, form |-> f]

\* import_xlsform(file_bytes, project): the result and project["form"] after
import_xlsform(wb, f, t) ==
    LET r == ReadWorkbook(wb, t)
    IN IF r.ok THEN [ok |-> TRUE, form |-> f \o r.questions]
       ELSE [ok |-> FALSE, form |-> f]

----------------------------------------------------------------------------
(* What the last handler left behind.                                      *)

NoWorkbook ==
    [readable |-> FALSE, raiseAt |-> 0, sheets |-> {},
     survey |-> EmptySheet, choices |-> EmptySheet]

NoOp ==
    [op |-> "none", ok |-> TRUE, wb |-> NoWorkbook, survey |-> <<>>,
     choices |-> <<>>, out |-> <<>>, entry |-> <<>>, missing |-> <<>>,
     sid |-> 0, idx |-> 0, user |-> <<>>, password |-> <<>>, text |-> <<>>,
     prior |-> <<>>]

----------------------------------------------------------------------------
(* Values of a record: what the collect widgets return.                    *)

NoneVal == [k |-> "none", s |-> <<>>, n |-> 0, l |-> <<>>]
StrVal(s) == [k |-> "str", s |-> s, n |-> 0, l |-> <<>>]
FloatVal(n) == [k |-> "num", s |-> <<>>, n |-> n, l |-> <<>>]
ListVal(l) == [k |-> "list", s |-> <<>>, n |-> 0, l |-> l]
\* a datetime.date, the value of st.date_input
DateVal(d) == [k |-> "date", s |-> <<>>, n |-> d, l |-> <<>>]

\* datetime.utcnow().isoformat()
isoformat(t) == <<"T">> \o IntToStr(t)

SubmissionTime == <<"_submission_time">>

----------------------------------------------------------------------------
(* The project store.                                                      *)

\* what json.dump leaves of a file it could not finish writing
Corrupt == [form |-> <<>>, data |-> <<>>, valid |-> FALSE]

\* json.dump can encode str, float, list and None, and no date object
JsonEncodable(v) == v.k \in {"none", "str", "num", "list"}

RecordEncodable(rec) == \A key \in DOMAIN rec : JsonEncodable(rec[key])

\* save_projects: the whole document is rewritten; json.dump raises
\* TypeError on the first value it cannot encode
save_projects(f, d) ==
    IF \A i \in 1..Len(d) : RecordEncodable(d[i])
    THEN [form |-> f, data |-> d, valid |-> TRUE]
    ELSE Corrupt

\* the keys of the widgets the collect form creates, one per question of a
\* type it handles with a widget
WidgetTypes == DesignerTypes \ {<<"note">>}

\* Streamlit refuses two widgets with one key (DuplicateWidgetID): the
\* script stops in the Collect tab and the tabs after it are not run
CollectRenders(f) ==
    \A i, j \in 1..Len(f) :
        (i # j /\ f[i].type \in WidgetTypes /\ f[j].type \in WidgetTypes)
            => f[i].name # f[j].name

\* line 573: a script run that gets to its end saves once more; it does not
\* get there when the Collect tab stops it
ScriptEnd(f, d, fl) == IF CollectRenders(f) THEN save_projects(f, d) ELSE fl

----------------------------------------------------------------------------
(* The state beyond one open project, where nothing of it is in use.       *)

Sessions == 1..2

\* a browser session that has not run the script yet
NoSession ==
    [started |-> FALSE, logged_in |-> FALSE, user |-> <<>>,
     current_project |-> <<>>, projects |-> <<>>]

\* no kc_projects.json yet
NoDisk == [valid |-> TRUE, doc |-> <<>>]

AppIdle ==
    /\ users = <<>>
    /\ registered = {}
    /\ sessions = [s \in Sessions |-> NoSession]
    /\ disk = NoDisk

----------------------------------------------------------------------------
(* Form Designer: Add Question (lines 429-467).                            *)

\* "".join(ch if ch.isalnum() else "_" for ch in label).lower()
Sanitize(s) == Lower([i \in 1..Len(s) |-> IF IsAlnum(s[i]) THEN s[i] ELSE "_"])

\* lines 449-452: the first of candidate, base_1, base_2, ... not in use
RECURSIVE FreeName(_, _, _, _)
FreeName(base, candidate, suffix, existing) ==
    IF candidate \in existing
    THEN FreeName(base, base \o <<"_">> \o IntToStr(suffix), suffix + 1, existing)
    ELSE candidate

\* lines 444-455: the name the new question is stored under
StoredName(f, q_label, q_name) ==
    IF Strip(q_name) = <<>>
    THEN LET base == Sanitize(Strip(q_label))
             existing_names == {f[i].name : i \in 1..Len(f)}
             candidate == IF base # <<>> THEN base
                          ELSE <<"q">> \o IntToStr(Len(f) + 1)
         IN FreeName(base, candidate, 1, existing_names)
    ELSE Strip(q_name)

\* line 461: [c.strip() for c in q_choices.splitlines() if c.strip()]
RECURSIVE StrippedLines(_)
StrippedLines(lines) ==
    IF lines = <<>> THEN <<>>
    ELSE (IF Strip(Head(lines)) # <<>> THEN <<Strip(Head(lines))>> ELSE <<>>)
         \o StrippedLines(Tail(lines))

\* lines 456-463
NewQuestion(f, q_label, q_type, q_required, q_choices, q_name, t) ==
    Question(new_id("q", t),
             StoredName(f, q_label, q_name),
             Strip(q_label),
             q_type,
             StrippedLines(SplitLines(q_choices)),
             q_required)

\* ChoicesInput as it would be if the choices box were read for every type
ChoicesInput_Always(q_type, text) == text

\* the choices box is shown for the two select types only (lines 433-435)
ChoicesInput(q_type, text) == IF q_type \in SelectTypes THEN text ELSE <<>>

AddQuestion(q_label, q_type, q_required, text, q_name) ==
    /\ Len(form) < MaxForm
    /\ IF Strip(q_label) = <<>>
       THEN /\ last' = [NoOp EXCEPT !.op = "add", !.ok = FALSE]
            /\ file' = ScriptEnd(form, data, file)
            /\ UNCHANGED <<form, data, clock>>
       ELSE /\ form' = Append(form,
                   NewQuestion(form, q_label, q_type, q_required,
                               ChoicesInput(q_type, text), q_name, clock))
            /\ file' = save_projects(form', data)
            /\ last' = [NoOp EXCEPT !.op = "add", !.text = text]
            /\ UNCHANGED <<data, clock>>
    /\ UNCHANGED appVars

----------------------------------------------------------------------------
(* Form Designer: import, move, delete, clear (lines 376-424).             *)

ImportQuestions(wb) ==
    LET r == import_xlsform(wb, form, clock)
    IN /\ Len(r.form) <= MaxForm
       /\ form' = r.form
       /\ file' = IF r.ok THEN save_projects(form', data)
                  ELSE ScriptEnd(form', data, file)
       /\ last' = [NoOp EXCEPT !.op = "import", !.ok = r.ok, !.wb = wb]
       /\ UNCHANGED <<data, clock>>
       /\ UNCHANGED appVars

\* Swap as it would be if the two assignments were made one after the other
Swap_Copy(f, i, j) == [f EXCEPT ![i] = f[j]]

\* a[i], a[j] = a[j], a[i]
Swap(f, i, j) == [f EXCEPT ![i] = f[j], ![j] = f[i]]

\* history of a move: the form f it started from and, for a move up that
\* follows a move down (l is what that handler left), the position of the
\* move down and the form it started from
Moved(f, l) ==
    IF l.op = "movedown"
    THEN [form |-> f, op |-> l.op, idx |-> l.idx, from |-> l.prior.form]
    ELSE [form |-> f, op |-> "other", idx |-> 0, from |-> <<>>]

MoveUp(idx_up) ==
    /\ form # <<>>
    /\ idx_up \in 1..Len(form)
    /\ IF idx_up - 1 > 0
       THEN /\ form' = Swap(form, idx_up - 1, idx_up)
            /\ file' = save_projects(form', data)
       ELSE /\ file' = ScriptEnd(form, data, file)
            /\ UNCHANGED form
    /\ last' = [NoOp EXCEPT !.op = "moveup", !.ok = (idx_up - 1 > 0),
                            !.idx = idx_up, !.prior = Moved(form, last)]
    /\ UNCHANGED <<data, clock>>
    /\ UNCHANGED appVars

MoveDown(idx_down) ==
    /\ form # <<>>
    /\ idx_down \in 1..Len(form)
    /\ IF idx_down - 1 < Len(form) - 1
       THEN /\ form' = Swap(form, idx_down + 1, idx_down)
            /\ file' = save_projects(form', data)
       ELSE /\ file' = ScriptEnd(form, data, file)
            /\ UNCHANGED form
    /\ last' = [NoOp EXCEPT !.op = "movedown",
                            !.ok = (idx_down - 1 < Len(form) - 1),
                            !.idx = idx_down, !.prior = Moved(form, NoOp)]
    /\ UNCHANGED <<data, clock>>
    /\ UNCHANGED appVars

\* Pop as it would be if pop() were called without its index
Pop_Last(q, i) == SubSeq(q, 1, Len(q) - 1)

\* list.pop(i - 1)
Pop(q, i) == SubSeq(q, 1, i - 1) \o SubSeq(q, i + 1, Len(q))

DeleteQuestion(del_idx) ==
    /\ form # <<>>
    /\ del_idx \in 1..Len(form)
    /\ form' = Pop(form, del_idx)
    /\ file' = save_projects(form', data)
    /\ last' = [NoOp EXCEPT !.op = "delete", !.idx = del_idx]
    /\ UNCHANGED <<data, clock>>
    /\ UNCHANGED appVars

ClearAll ==
    /\ form # <<>>
    /\ form' = <<>>
    /\ data' = <<>>
    /\ file' = save_projects(form', data')
    /\ last' = [NoOp EXCEPT !.op = "clear"]
    /\ UNCHANGED clock
    /\ UNCHANGED appVars

----------------------------------------------------------------------------
(* Collect: the entry, its validation and the append (lines 475-518).      *)

TextInputs == {<<>>, <<"x">>}
NumberInputs == {0, 1}
DateInputs == {1}

\* the values the widget of question q can return
WidgetValues(q) ==
    CASE q.type = <<"text">> -> {StrVal(x) : x \in TextInputs}
      [] q.type \in {<<"integer">>, <<"decimal">>} ->
             {FloatVal(n) : n \in NumberInputs}
      [] q.type = <<"date">> -> {DateVal(d) : d \in DateInputs}
      [] q.type = <<"select_one">> ->
             {StrVal(<<>>)} \cup {StrVal(q.choices[i]) : i \in 1..Len(q.choices)}
      [] q.type = <<"select_multiple">> ->
             {ListVal(<<>>), ListVal(q.choices)}
                 \cup {ListVal(<<q.choices[i]>>) : i \in 1..Len(q.choices)}
      [] OTHER -> {NoneVal}

\* lines 479-499: entry[qn] is assigned for the seven types, in form order
Entry(f, vals) ==
    LET handled == {i \in 1..Len(f) : f[i].type \in DesignerTypes}
        keys == {f[i].name : i \in handled}
        lastof(key) == CHOOSE i \in handled :
                          /\ f[i].name = key
                          /\ \A j \in handled : f[j].name = key => j <= i
    IN [key \in keys |-> vals[lastof(key)]]

\* entry.get(name)
Get(entry, name) == IF name \in DOMAIN entry THEN entry[name] ELSE NoneVal

\* IsMissing as it would be with the empty list left out of the tuple
IsMissing_NoList(v) ==
    \/ v.k = "none"
    \/ (v.k = "str" /\ v.s = <<>>)
    \/ (v.k = "num" /\ v.n = 0)

\* v in (None, "", [], 0)
IsMissing(v) ==
    \/ v.k = "none"
    \/ (v.k = "str" /\ v.s = <<>>)
    \/ (v.k = "list" /\ v.l = <<>>)
    \/ (v.k = "num" /\ v.n = 0)

\* lines 502-505
RECURSIVE Missing(_, _)
Missing(f, entry) ==
    IF f = <<>> THEN <<>>
    ELSE (IF Head(f).required /\ IsMissing(Get(entry, Head(f).name))
          THEN <<Head(f).label>> ELSE <<>>)
         \o Missing(Tail(f), entry)

\* isinstance(v, (pd.Timestamp, datetime)): a datetime.date is neither
IsDatetime(v) == v.k \in {"timestamp", "datetime"}

\* lines 510-512
Normalize(v) == IF IsDatetime(v) THEN StrVal(<<"D">> \o IntToStr(v.n)) ELSE v

\* lines 513-514: the timestamp first, then update() with the entry
EntryMeta(entry, t) ==
    [key \in {SubmissionTime} \cup DOMAIN entry |->
        IF key \in DOMAIN entry THEN Normalize(entry[key])
        ELSE StrVal(isoformat(t))]

SubmitRecord(vals) ==
    /\ form # <<>>
    /\ CollectRenders(form)
    /\ Len(data) < MaxData
    /\ \A i \in 1..Len(form) : vals[i] \in WidgetValues(form[i])
    /\ LET entry == Entry(form, vals)
           missing == Missing(form, entry)
       IN IF missing # <<>>
          THEN /\ last' = [NoOp EXCEPT !.op = "submit", !.ok = FALSE,
                                       !.entry = entry, !.missing = missing]
               /\ file' = ScriptEnd(form, data, file)
               /\ UNCHANGED data
          ELSE /\ data' = Append(data, EntryMeta(entry, clock))
               /\ file' = save_projects(form, data')
               /\ last' = [NoOp EXCEPT !.op = "submit", !.entry = entry]
    /\ UNCHANGED <<form, clock>>
    /\ UNCHANGED appVars

\* Data: Delete Submission (lines 538-543)
DeleteSubmission(idx_to_delete) ==
    /\ CollectRenders(form)
    /\ data # <<>>
    /\ idx_to_delete \in 1..Len(data)
    /\ data' = Pop(data, idx_to_delete)
    /\ file' = save_projects(form, data')
    /\ last' = [NoOp EXCEPT !.op = "delsub", !.idx = idx_to_delete]
    /\ UNCHANGED <<form, clock>>
    /\ UNCHANGED appVars

\* time passes
Tick ==
    /\ clock < MaxClock
    /\ clock' = clock + 1
    /\ last' = [NoOp EXCEPT !.op = "tick"]
    /\ UNCHANGED <<form, data, file>>
    /\ UNCHANGED appVars

----------------------------------------------------------------------------
(* One open project: the form designer, the collect form and the data tab. *)

AddLabels == {<<"A">>, <<" ">>}
AddNames == {<<>>, <<"a">>}
AddTypes == {<<"text">>, <<"select_multiple">>}
AddChoices == {<<"x", "\n", " ", "y">>}

ChoicesSheet(list_name) ==
    [cols |-> ChoicesCols,
     rows |-> <<[list_name |-> TextCell(list_name),
                 name |-> TextCell(<<"opt", "1">>),
                 label |-> TextCell(<<"x">>)]>>]

GoodRows ==
    <<[type |-> TextCell(<<"text">>), name |-> TextCell(<<"a">>),
       label |-> TextCell(<<"A">>), required |-> TextCell(<<"yes">>)],
      [type |-> TextCell(<<"text">>), name |-> BlankCell,
       label |-> TextCell(<<"B">>), required |-> BlankCell],
      [type |-> TextCell(<<"select_one", " ", "c">>), name |-> TextCell(<<"b">>),
       label |-> TextCell(<<"B">>), required |-> BlankCell]>>

GoodWorkbook ==
    [readable |-> TRUE, raiseAt |-> 0, sheets |-> {"survey", "choices"},
     survey |-> [cols |-> SurveyCols, rows |-> GoodRows],
     choices |-> ChoicesSheet(<<"c">>)]

\* a workbook that has a survey sheet only
SurveyWorkbook(sheet) ==
    [readable |-> TRUE, raiseAt |-> 0, sheets |-> {"survey"},
     survey |-> sheet, choices |-> EmptySheet]

\* a survey sheet with one question of a type the designer does not offer
OddWorkbook ==
    SurveyWorkbook([cols |-> SurveyCols,
                    rows |-> <<[type |-> TextCell(<<"geopoint">>),
                                name |-> TextCell(<<"g">>),
                                label |-> TextCell(<<"G">>),
                                required |-> TextCell(<<"yes">>)]>>])

\* the files a user uploads: a good one, the ways one can be bad, and one
\* whose type cell is none of the designer's types
Uploads ==
    {GoodWorkbook,
     OddWorkbook,
     [GoodWorkbook EXCEPT !.survey.rows = SubSeq(GoodRows, 1, 1)],
     [GoodWorkbook EXCEPT !.readable = FALSE],
     [GoodWorkbook EXCEPT !.sheets = {"choices"}],
     [GoodWorkbook EXCEPT !.survey =
         [cols |-> {"type", "name"},
          rows |-> <<[type |-> TextCell(<<"text">>), name |-> TextCell(<<"a">>)]>>]],
     [GoodWorkbook EXCEPT !.raiseAt = 3]}

Init ==
    /\ form = <<>>
    /\ data = <<>>
    /\ clock = 0
    /\ file = save_projects(<<>>, <<>>)
    /\ last = NoOp
    /\ AppIdle

SubmitInputs(f) ==
    [1..Len(f) -> UNION {WidgetValues(f[i]) : i \in 1..Len(f)}]

Next ==
    \/ \E l \in AddLabels, t \in AddTypes, r \in BOOLEAN,
          c \in AddChoices, n \in AddNames : AddQuestion(l, t, r, c, n)
    \/ \E wb \in Uploads : ImportQuestions(wb)
    \/ \E i \in 1..MaxForm : MoveUp(i)
    \/ \E i \in 1..MaxForm : MoveDown(i)
    \/ \E i \in 1..MaxForm : DeleteQuestion(i)
    \/ ClearAll
    \/ \E vals \in SubmitInputs(form) : SubmitRecord(vals)
    \/ \E i \in 1..MaxData : DeleteSubmission(i)

Spec == Init /\ [][Next]_vars

----------------------------------------------------------------------------
(* The schema codec on its own: a form is exported, and the exported or an *)
(* uploaded workbook is imported into a project whose form is empty.       *)

\* the (name, label) pairs, types and choices of the questions exported
CodecNameLabels ==
    {<<<<"a">>, <<"A">>>>, <<<<"b">>, <<"A">>>>, <<<<"b">>, <<"N/A">>>>}
CodecChoices == {<<>>, <<<<"x">>, <<"N/A">>>>}

CodecQuestions ==
    {Question(new_id("q", 0), nl[1], nl[2], t, <<>>, r) :
        nl \in CodecNameLabels, r \in BOOLEAN,
        t \in DesignerTypes \ SelectTypes}
    \cup
    {Question(new_id("q", 0), nl[1], nl[2], t, c, r) :
        nl \in CodecNameLabels, r \in BOOLEAN,
        t \in SelectTypes, c \in CodecChoices}

CodecForms ==
    UNION {[1..k -> CodecQuestions] : k \in 0..MaxCodecForm}

CodecInit ==
    /\ form \in CodecForms
    /\ data = <<>>
    /\ clock = 0
    /\ file = save_projects(<<>>, <<>>)
    /\ last = NoOp
    /\ AppIdle

\* the Export tab: export_xlsform_to_bytes(project)
CodecExport ==
    /\ last.op = "none"
    /\ last' = [NoOp EXCEPT !.op = "export",
                            !.wb = export_xlsform_to_bytes(form),
                            !.survey = survey_data(form),
                            !.choices = choices_data(form)]
    /\ UNCHANGED <<form, data, clock, file>>
    /\ UNCHANGED appVars

\* the exported workbook imported into an empty form
CodecReimport ==
    /\ last.op = "export"
    /\ LET r == import_xlsform(last.wb, <<>>, clock)
       IN last' = [last EXCEPT !.op = "reimport", !.ok = r.ok, !.out = r.form]
    /\ UNCHANGED <<form, data, clock, file>>
    /\ UNCHANGED appVars

\* the cells an uploaded survey sheet may hold in its required column
RequiredCells ==
    {BlankCell, TextCell(<<"yes">>), TextCell(<<"YES">>), TextCell(<<"no">>),
     TextCell(<<"true">>), TextCell(<<"required">>), TextCell(<<"1">>),
     IntCell(1), IntCell(0)}

MaxUploadRows == 2

\* row i of an uploaded survey sheet: a text question named after its row
UploadRow(i, cell) ==
    [type |-> TextCell(<<"text">>),
     name |-> TextCell(<<"q">> \o IntToStr(i)),
     label |-> TextCell(<<"Q">> \o IntToStr(i)),
     required |-> cell]

UploadBare(i) ==
    [type |-> TextCell(<<"text">>),
     name |-> TextCell(<<"q">> \o IntToStr(i)),
     label |-> TextCell(<<"Q">> \o IntToStr(i))]

CodecUploads ==
    {SurveyWorkbook([cols |-> SurveyCols,
                     rows |-> [i \in 1..Len(cells) |-> UploadRow(i, cells[i])]]) :
        cells \in UNION {[1..k -> RequiredCells] : k \in 1..MaxUploadRows}}
    \cup
    {SurveyWorkbook([cols |-> {"type", "name", "label"},
                     rows |-> [i \in 1..k |-> UploadBare(i)]]) :
        k \in 1..MaxUploadRows}

\* a workbook uploaded into a new project and imported
CodecUpload(wb) ==
    /\ last.op = "none"
    /\ form = <<>>
    /\ LET r == import_xlsform(wb, form, clock)
       IN last' = [NoOp EXCEPT !.op = "upload", !.ok = r.ok, !.wb = wb,
                               !.out = r.form]
    /\ UNCHANGED <<form, data, clock, file>>
    /\ UNCHANGED appVars

\* the type cells, list names and choice labels of an uploaded select sheet
SelectTypeCells ==
    {<<"select_one", " ", "c">>, <<"select_multiple">>, <<"text">>}
SelectListNames == {<<"c">>, <<"d">>}
SelectLabelCells == {TextCell(<<"x">>), BlankCell, TextCell(<<"N/A">>)}

MaxChoiceRows == 2

\* row i of an uploaded choices sheet
ChoiceUploadRow(i, list_name, cell) ==
    [list_name |-> TextCell(list_name),
     name |-> TextCell(<<"opt">> \o IntToStr(i)),
     label |-> cell]

\* workbooks with one survey row and a choices sheet
SelectUploads ==
    {[readable |-> TRUE, raiseAt |-> 0, sheets |-> {"survey", "choices"},
      survey |-> [cols |-> {"type", "name", "label"},
                  rows |-> <<[type |-> TextCell(t), name |-> TextCell(<<"c">>),
                              label |-> TextCell(<<"C">>)]>>],
      choices |-> [cols |-> ChoicesCols,
                   rows |-> [i \in 1..MaxChoiceRows |->
                                ChoiceUploadRow(i, ln[i], lc[i])]]] :
        t \in SelectTypeCells,
        ln \in [1..MaxChoiceRows -> SelectListNames],
        lc \in [1..MaxChoiceRows -> SelectLabelCells]}

CodecNext ==
    \/ CodecExport
    \/ CodecReimport
    \/ \E wb \in CodecUploads : CodecUpload(wb)
    \/ \E wb \in SelectUploads : CodecUpload(wb)

SpecCodec == CodecInit /\ [][CodecNext]_vars

----------------------------------------------------------------------------
(* The collect form on its own: a project whose form was built in the      *)
(* designer, records submitted and deleted.                                *)

CollectLabels == {<<"A">>, <<"B">>}

\* what was typed into the Add Question form
CollectInputs ==
    {[label |-> l, type |-> t, required |-> r, name |-> <<>>] :
        l \in CollectLabels, t \in DesignerTypes, r \in BOOLEAN}
    \cup
    {[label |-> <<"A">>, type |-> <<"text">>, required |-> FALSE,
      name |-> SubmissionTime],
     [label |-> <<"B">>, type |-> <<"text">>, required |-> FALSE,
      name |-> <<"a">>]}

\* the forms k designer actions build from the empty form
RECURSIVE BuiltForms(_)
BuiltForms(k) ==
    IF k = 0 THEN {<<>>}
    ELSE LET prev == BuiltForms(k - 1)
         IN prev
            \cup {Append(f, NewQuestion(f, i.label, i.type, i.required,
                                        ChoicesInput(i.type, <<"x", "\n", "y">>),
                                        i.name, 0)) :
                     f \in prev, i \in CollectInputs}
            \cup {import_xlsform(OddWorkbook, f, 0).form : f \in prev}

CollectInit ==
    /\ form \in BuiltForms(MaxCollectForm)
    /\ data = <<>>
    /\ clock = 0
    /\ file = save_projects(form, data)
    /\ last = NoOp
    /\ AppIdle

CollectNext ==
    \/ \E vals \in SubmitInputs(form) : SubmitRecord(vals)
    \/ \E i \in 1..MaxData : DeleteSubmission(i)
    \/ Tick

SpecCollect == CollectInit /\ [][CollectNext]_vars

----------------------------------------------------------------------------
(* The question list on its own: a project whose form was built with Add   *)
(* Question, its questions moved and deleted while records come and go.    *)

MaxDesignerForm == 3

\* what was typed into the Add Question form
DesignerInputs ==
    {[label |-> <<"A">>, type |-> <<"text">>, required |-> FALSE],
     [label |-> <<"B">>, type |-> <<"text">>, required |-> TRUE]}

\* the forms k Add Question actions build from the empty form
RECURSIVE DesignedForms(_)
DesignedForms(k) ==
    IF k = 0 THEN {<<>>}
    ELSE LET prev == DesignedForms(k - 1)
         IN prev \cup {Append(f, NewQuestion(f, i.label, i.type, i.required,
                                            <<>>, <<>>, 0)) :
                          f \in prev, i \in DesignerInputs}

DesignerInit ==
    /\ form \in DesignedForms(MaxDesignerForm)
    /\ data = <<>>
    /\ clock = 0
    /\ file = save_projects(form, data)
    /\ last = NoOp
    /\ AppIdle

DesignerNext ==
    \/ \E i \in 1..MaxDesignerForm : MoveUp(i)
    \/ \E i \in 1..MaxDesignerForm : MoveDown(i)
    \/ \E i \in 1..MaxDesignerForm : DeleteQuestion(i)
    \/ \E vals \in SubmitInputs(form) : SubmitRecord(vals)
    \/ \E i \in 1..MaxData : DeleteSubmission(i)

SpecDesigner == DesignerInit /\ [][DesignerNext]_vars

----------------------------------------------------------------------------
(* The credential store kc_users.csv (lines 31-56).  Each call reads the   *)
(* whole file with pd.read_csv, which converts every column as a whole in  *)
(* the way pd.read_excel does, and add_user writes the frame back.         *)

MaxUsers == 3

\* hashlib.sha256(password).hexdigest(): a hex text, one per password
hash_password(password) == <<"sha256:">> \o password

UserCols == {"username", "password_hash"}

\* pd.read_csv(USER_FILE): an empty field is a blank cell
read_csv(rows) ==
    read_excel([cols |-> UserCols,
                rows |-> [i \in 1..Len(rows) |->
                             [c \in UserCols |-> WriteCell(rows[i][c])]]])

\* the field to_csv writes for a value of the frame: NaN is left empty
CsvField(c) == IF isna(c) THEN <<>> ELSE PyStr(c)

\* df.to_csv(USER_FILE, index=False)
to_csv(frame) ==
    [i \in 1..Len(frame.rows) |->
        [c \in UserCols |-> CsvField(frame.rows[i][c])]]

\* the positions of the rows whose username equals the Python str username
RowsOf(frame, username) ==
    {i \in 1..Len(frame.rows) : frame.rows[i]["username"] = TextCell(username)}

\* add_user(username, password): the result and the file after the call
add_user(rows, username, password) ==
    LET df == read_csv(rows)
        row == [username |-> TextCell(username),
                password_hash |-> TextCell(hash_password(password))]
    IN IF RowsOf(df, username) # {}
       THEN [ok |-> FALSE, rows |-> rows]
       ELSE [ok |-> TRUE,
             rows |-> to_csv([cols |-> UserCols, rows |-> Append(df.rows, row)])]

\* authenticate(username, password)
authenticate(rows, username, password) ==
    LET df == read_csv(rows)
        row == RowsOf(df, username)
    IN IF row = {} THEN FALSE
       ELSE LET first == CHOOSE i \in row : \A j \in row : i <= j
            IN df.rows[first]["password_hash"]
                   = TextCell(hash_password(password))

\* the usernames and passwords typed into the sidebar
Usernames == {<<"u">>, <<"7">>, <<"NA">>}
Passwords == {<<"p">>, <<"r">>}

\* Sign Up: Create Account with both fields filled in and the passwords equal
Register(su_user, su_pass) ==
    /\ Len(users) < MaxUsers
    /\ LET r == add_user(users, su_user, su_pass)
       IN /\ users' = r.rows
          /\ registered' =
                 IF r.ok /\ ~\E x \in registered : x[1] = su_user
                 THEN registered \cup {<<su_user, su_pass>>} ELSE registered
          /\ last' = [NoOp EXCEPT !.op = "register", !.ok = r.ok,
                                  !.user = su_user, !.password = su_pass]
    /\ UNCHANGED <<form, data, clock, file, sessions, disk>>

\* a call of authenticate, as the Log in button makes it
Authenticate(li_user, li_pass) ==
    /\ last' = [NoOp EXCEPT !.op = "authenticate",
                            !.ok = authenticate(users, li_user, li_pass),
                            !.user = li_user, !.password = li_pass]
    /\ UNCHANGED <<form, data, clock, file, users, registered, sessions, disk>>

AuthInit ==
    /\ form = <<>>
    /\ data = <<>>
    /\ clock = 0
    /\ file = save_projects(<<>>, <<>>)
    /\ last = NoOp
    /\ users = <<>>
    /\ registered = {}
    /\ sessions = [s \in Sessions |-> NoSession]
    /\ disk = NoDisk

AuthNext ==
    \/ \E u \in Usernames, p \in Passwords : Register(u, p)
    \/ \E u \in Usernames, p \in Passwords : Authenticate(u, p)

SpecAuth == AuthInit /\ [][AuthNext]_vars

----------------------------------------------------------------------------
(* Sessions and the project document (lines 58-103 and 239-365).  Every    *)
(* session loads the document once, into st.session_state.projects, works  *)
(* on that copy and writes the whole copy back with each save.             *)

MaxProjects == 2
MaxAppForm == 1

\* dict[k] = v
Put(m, k, v) == [x \in DOMAIN m \cup {k} |-> IF x = k THEN v ELSE m[x]]

\* del dict[k]
Del(m, k) == [x \in DOMAIN m \ {k} |-> m[x]]

\* create_empty_project(owner, title): both clock readings are t
create_empty_project(owner, title, t) ==
    [pid |-> new_id("proj", t),
     project |-> [id |-> new_id("proj", t), title |-> title, owner |-> owner,
                  created_at |-> isoformat(t), form |-> <<>>, data |-> <<>>]]

\* json.dump can encode every record of every project
DocEncodable(doc) ==
    \A u \in DOMAIN doc : \A pid \in DOMAIN doc[u] :
        \A i \in 1..Len(doc[u][pid].data) :
            RecordEncodable(doc[u][pid].data[i])

\* what json.dump leaves of a document it could not finish writing
CorruptDisk == [valid |-> FALSE, doc |-> <<>>]

\* SaveDocument as it would be if the users missing from the copy were kept
SaveDocument_Merge(old, doc) ==
    IF DocEncodable(doc)
    THEN [valid |-> TRUE,
          doc |-> [u \in DOMAIN old.doc \cup DOMAIN doc |->
                      IF u \in DOMAIN doc THEN doc[u] ELSE old.doc[u]]]
    ELSE CorruptDisk

\* save_projects(data) over the file old: opened with "w", written whole
SaveDocument(old, doc) ==
    IF DocEncodable(doc) THEN [valid |-> TRUE, doc |-> doc] ELSE CorruptDisk

\* load_projects(): {} when the file is missing or cannot be decoded
load_projects(dsk) == IF dsk.valid THEN dsk.doc ELSE <<>>

\* st.session_state.projects[user][pid] exists for the logged-in user
HasProject(sess) ==
    /\ sess.logged_in
    /\ sess.current_project # <<>>
    /\ sess.user \in DOMAIN sess.projects
    /\ sess.current_project \in DOMAIN sess.projects[sess.user]

\* line 358: project = st.session_state.projects[user][pid]
Cur(sess) == sess.projects[sess.user][sess.current_project]

\* StoreProject as it would be if the project were stored under every user
StoreProject_Shared(projects, user, pid, project) ==
    [u \in DOMAIN projects |-> Put(projects[u], pid, project)]

\* st.session_state.projects[user][pid] = project
StoreProject(projects, user, pid, project) ==
    Put(projects, user, Put(projects[user], pid, project))

\* the script run gets to its last lines: a project is open and the Collect
\* tab did not stop it
ScriptCompletes(sess) == HasProject(sess) /\ CollectRenders(Cur(sess).form)

\* lines 572-573: save back any changes
TrailingSave(sess, dsk) ==
    IF ScriptCompletes(sess) THEN SaveDocument(dsk, sess.projects) ELSE dsk

\* the number of projects of all users in one copy of the document
TotalProjects(projects) ==
    Cardinality(UNION {{<<u, pid>> : pid \in DOMAIN projects[u]} :
                          u \in DOMAIN projects})

appFrame == <<form, data, file, users, registered>>

\* the first script run of a session (lines 76-85)
SessionStart(s) ==
    /\ ~sessions[s].started
    /\ sessions' = [sessions EXCEPT ![s] =
                       [NoSession EXCEPT !.started = TRUE,
                                         !.projects = load_projects(disk)]]
    /\ last' = [NoOp EXCEPT !.op = "start", !.sid = s]
    /\ UNCHANGED <<appFrame, clock, disk>>

\* the Log in button (lines 263-277), then the rest of the script run
Login(s, li_user, li_pass) ==
    LET sess == sessions[s]
        ok == authenticate(users, li_user, li_pass)
        fresh == li_user \notin DOMAIN sess.projects
        sess1 == IF ok
                 THEN [sess EXCEPT !.logged_in = TRUE, !.user = li_user,
                                   !.projects = IF fresh
                                                THEN Put(@, li_user, <<>>)
                                                ELSE @]
                 ELSE sess
        disk1 == IF ok /\ fresh THEN SaveDocument(disk, sess1.projects)
                 ELSE disk
    IN /\ sess.started
       /\ sessions' = [sessions EXCEPT ![s] = sess1]
       /\ disk' = TrailingSave(sess1, disk1)
       /\ last' = [NoOp EXCEPT !.op = "login", !.ok = ok, !.sid = s,
                               !.user = li_user, !.password = li_pass]
       /\ UNCHANGED <<appFrame, clock>>

\* the Logout button (lines 345-349)
Logout(s) ==
    /\ sessions[s].logged_in
    /\ sessions' = [sessions EXCEPT ![s].logged_in = FALSE, ![s].user = <<>>,
                                    ![s].current_project = <<>>]
    /\ last' = [NoOp EXCEPT !.op = "logout", !.sid = s]
    /\ UNCHANGED <<appFrame, clock, disk>>

\* the number a project id ends with
PidNumber(pid) == StrToInt(SubSeq(pid, 3, Len(pid)))

\* lines 304-314: the select box lists titles, and Open takes the first
\* project of the sorted (title, pid) list that has the selected title
Openable(ps) ==
    {pid \in DOMAIN ps :
        \A q \in DOMAIN ps :
            ps[q].title = ps[pid].title => PidNumber(pid) <= PidNumber(q)}

\* the Open button (lines 315-317)
OpenProject(s, sel_pid) ==
    LET sess == sessions[s]
        sess1 == [sess EXCEPT !.current_project = sel_pid]
    IN /\ sess.logged_in
       /\ sel_pid \in Openable(sess.projects[sess.user])
       /\ sessions' = [sessions EXCEPT ![s] = sess1]
       /\ disk' = TrailingSave(sess1, disk)
       /\ last' = [NoOp EXCEPT !.op = "open", !.sid = s]
       /\ UNCHANGED <<appFrame, clock>>

\* the Create Project button (lines 325-333)
CreateProject(s, new_title) ==
    LET sess == sessions[s]
        blank == Strip(new_title) = <<>>
        cp == create_empty_project(sess.user, Strip(new_title), clock)
        sess1 == IF blank THEN sess
                 ELSE [sess EXCEPT
                          !.projects = StoreProject(@, sess.user, cp.pid,
                                                    cp.project),
                          !.current_project = cp.pid]
        disk1 == IF blank THEN disk ELSE SaveDocument(disk, sess1.projects)
    IN /\ sess.logged_in
       /\ TotalProjects(sess.projects) < MaxProjects
       /\ sessions' = [sessions EXCEPT ![s] = sess1]
       /\ disk' = TrailingSave(sess1, disk1)
       /\ last' = [NoOp EXCEPT !.op = "create", !.ok = ~blank, !.sid = s,
                               !.text = new_title]
       /\ UNCHANGED <<appFrame, clock>>

\* the Delete Current Project button (lines 336-343); the lookup of the
\* title raises KeyError when the user has no project of that id
DeleteProject(s) ==
    LET sess == sessions[s]
        pid == sess.current_project
        found == pid \in DOMAIN sess.projects[sess.user]
        sess1 == IF found
                 THEN [sess EXCEPT
                          !.projects = Put(@, sess.user, Del(@[sess.user], pid)),
                          !.current_project = <<>>]
                 ELSE sess
    IN /\ sess.logged_in
       /\ pid # <<>>
       /\ sessions' = [sessions EXCEPT ![s] = sess1]
       /\ disk' = IF found THEN SaveDocument(disk, sess1.projects) ELSE disk
       /\ last' = [NoOp EXCEPT !.op = "delproj", !.ok = found, !.sid = s]
       /\ UNCHANGED <<appFrame, clock>>

\* the session after its open project got this form, data and title
WithProject(sess, f, d, title) ==
    [sess EXCEPT !.projects =
        StoreProject(@, sess.user, sess.current_project,
                     [Cur(sess) EXCEPT !.form = f, !.data = d, !.title = title])]

\* a handler of the project workspace: the project it leaves, its own save
\* if it makes one, then the rest of the script run
Workspace(s, op, ok, idx, f, d, title, saved) ==
    LET sess1 == WithProject(sessions[s], f, d, title)
        disk1 == IF saved THEN SaveDocument(disk, sess1.projects) ELSE disk
    IN /\ sessions' = [sessions EXCEPT ![s] = sess1]
       /\ disk' = TrailingSave(sess1, disk1)
       /\ last' = [NoOp EXCEPT !.op = op, !.ok = ok, !.sid = s, !.idx = idx]
       /\ UNCHANGED <<appFrame, clock>>

\* Add Question with a label and no name (lines 439-467)
AppAddQuestion(s, inp) ==
    LET p == Cur(sessions[s])
    IN /\ HasProject(sessions[s])
       /\ Len(p.form) < MaxAppForm
       /\ Workspace(s, "add", TRUE, 0,
                    Append(p.form, NewQuestion(p.form, inp.label, inp.type,
                                               inp.required, <<>>, <<>>, clock)),
                    p.data, p.title, TRUE)

\* Import Questions from XLSForm (lines 376-383)
AppImport(s, wb) ==
    LET p == Cur(sessions[s])
        r == import_xlsform(wb, p.form, clock)
    IN /\ HasProject(sessions[s])
       /\ Len(r.form) <= MaxAppForm
       /\ Workspace(s, "import", r.ok, 0, r.form, p.data, p.title, r.ok)

\* Move Up (lines 392-399)
AppMoveUp(s, idx_up) ==
    LET p == Cur(sessions[s])
        moved == idx_up - 1 > 0
    IN /\ HasProject(sessions[s])
       /\ idx_up \in 1..Len(p.form)
       /\ Workspace(s, "moveup", moved, idx_up,
                    IF moved THEN Swap(p.form, idx_up - 1, idx_up) ELSE p.form,
                    p.data, p.title, moved)

\* Move Down (lines 401-408)
AppMoveDown(s, idx_down) ==
    LET p == Cur(sessions[s])
        moved == idx_down - 1 < Len(p.form) - 1
    IN /\ HasProject(sessions[s])
       /\ idx_down \in 1..Len(p.form)
       /\ Workspace(s, "movedown", moved, idx_down,
                    IF moved THEN Swap(p.form, idx_down + 1, idx_down)
                    ELSE p.form,
                    p.data, p.title, moved)

\* Delete Question (lines 410-416)
AppDeleteQuestion(s, del_idx) ==
    LET p == Cur(sessions[s])
    IN /\ HasProject(sessions[s])
       /\ del_idx \in 1..Len(p.form)
       /\ Workspace(s, "delete", TRUE, del_idx, Pop(p.form, del_idx),
                    p.data, p.title, TRUE)

\* Clear all questions (lines 418-424)
AppClearAll(s) ==
    LET p == Cur(sessions[s])
    IN /\ HasProject(sessions[s])
       /\ p.form # <<>>
       /\ Workspace(s, "clear", TRUE, 0, <<>>, <<>>, p.title, TRUE)

\* the form of the open project, if there is one
AppForm(s) ==
    IF HasProject(sessions[s]) THEN Cur(sessions[s]).form ELSE <<>>

\* Submit record (lines 475-518)
AppSubmit(s, vals) ==
    LET p == Cur(sessions[s])
        entry == Entry(p.form, vals)
        missing == Missing(p.form, entry)
    IN /\ HasProject(sessions[s])
       /\ p.form # <<>>
       /\ CollectRenders(p.form)
       /\ Len(p.data) < MaxData
       /\ \A i \in 1..Len(p.form) : vals[i] \in WidgetValues(p.form[i])
       /\ IF missing # <<>>
          THEN Workspace(s, "submit", FALSE, 0, p.form, p.data, p.title, FALSE)
          ELSE Workspace(s, "submit", TRUE, 0, p.form,
                         Append(p.data, EntryMeta(entry, clock)), p.title, TRUE)

\* Delete Submission (lines 538-543)
AppDeleteSubmission(s, idx_to_delete) ==
    LET p == Cur(sessions[s])
    IN /\ HasProject(sessions[s])
       /\ CollectRenders(p.form)
       /\ idx_to_delete \in 1..Len(p.data)
       /\ Workspace(s, "delsub", TRUE, idx_to_delete, p.form,
                    Pop(p.data, idx_to_delete), p.title, TRUE)

\* Rename project (lines 559-567)
RenameProject(s, new_title) ==
    LET p == Cur(sessions[s])
    IN /\ HasProject(sessions[s])
       /\ CollectRenders(p.form)
       /\ Workspace(s, "rename", TRUE, 0, p.form, p.data,
                    IF Strip(new_title) # <<>> THEN Strip(new_title)
                    ELSE p.title,
                    TRUE)

\* the accounts, what is typed and what is uploaded
AppUsers == {<<"u">>, <<"v">>}
AppPasswords == {<<"p">>, <<"r">>}
CreateTitles == {<<"T">>, <<" ">>}
RenameTitles == {<<"R">>, <<" ">>}
AppInputs == {[label |-> <<"D">>, type |-> <<"date">>, required |-> FALSE]}
AppUploads ==
    {SurveyWorkbook([cols |-> {"type", "name", "label"},
                     rows |-> <<[type |-> TextCell(<<"date">>),
                                 name |-> TextCell(<<"d">>),
                                 label |-> TextCell(<<"D">>)]>>]),
     NoWorkbook}
AllPids == {new_id("proj", t) : t \in 0..MaxClock}

\* both accounts exist, no session has started, there is no document yet
AppInit ==
    /\ form = <<>>
    /\ data = <<>>
    /\ clock = 0
    /\ file = save_projects(<<>>, <<>>)
    /\ last = NoOp
    /\ users = add_user(add_user(<<>>, <<"u">>, <<"p">>).rows,
                        <<"v">>, <<"p">>).rows
    /\ registered = {<<<<"u">>, <<"p">>>>, <<<<"v">>, <<"p">>>>}
    /\ sessions = [s \in Sessions |-> NoSession]
    /\ disk = NoDisk

\* one browser session
AppNext ==
    \/ SessionStart(1)
    \/ \E u \in AppUsers, p \in AppPasswords : Login(1, u, p)
    \/ Logout(1)
    \/ \E pid \in AllPids : OpenProject(1, pid)
    \/ \E t \in CreateTitles : CreateProject(1, t)
    \/ DeleteProject(1)
    \/ \E t \in RenameTitles : RenameProject(1, t)
    \/ \E inp \in AppInputs : AppAddQuestion(1, inp)
    \/ \E wb \in AppUploads : AppImport(1, wb)
    \/ \E i \in 1..MaxAppForm : AppMoveUp(1, i)
    \/ \E i \in 1..MaxAppForm : AppMoveDown(1, i)
    \/ \E i \in 1..MaxAppForm : AppDeleteQuestion(1, i)
    \/ AppClearAll(1)
    \/ \E vals \in SubmitInputs(AppForm(1)) : AppSubmit(1, vals)
    \/ \E i \in 1..MaxData : AppDeleteSubmission(1, i)
    \/ Tick

SpecApp == AppInit /\ [][AppNext]_vars

\* two browser sessions on one document
SharedNext ==
    \/ \E s \in Sessions : SessionStart(s)
    \/ \E s \in Sessions, u \in AppUsers : Login(s, u, <<"p">>)
    \/ \E s \in Sessions : Logout(s)
    \/ \E s \in Sessions, t \in CreateTitles : CreateProject(s, t)
    \/ \E s \in Sessions : DeleteProject(s)
    \/ Tick

SpecShared == AppInit /\ [][SharedNext]_vars

----------------------------------------------------------------------------
(* Claims about the form designer, checked under Spec.                     *)

\* C2: no two questions of the form have the same name, whatever sequence
\* of add (with no name, a fresh name or a name in use), import, move,
\* delete and clear ran.
C2_UniqueNames ==
    \A i, j \in 1..Len(form) : i # j => form[i].name # form[j].name

\* the ways the claim lists for a workbook to make the import fail
ImportMustFail(wb) ==
    \/ ~wb.readable
    \/ "survey" \notin wb.sheets
    \/ ~({"type", "name", "label"} \subseteq wb.survey.cols)
    \/ wb.raiseAt \in 1..Len(wb.survey.rows)

\* C3: an import of a workbook with no survey sheet, without one of the
\* columns type, name, label, or whose reading raises, fails; and a failed
\* import leaves the form (and the data) exactly as they were, also when
\* rows had been processed before the failure.
C3_FailedImportChangesNothing ==
    [][last'.op = "import" =>
          /\ ImportMustFail(last'.wb) => ~last'.ok
          /\ ~last'.ok => (form' = form /\ data' = data)]_vars

C3_Witness ==
    /\ last.op = "import"
    /\ ~last.ok
    /\ last.wb.raiseAt = 3
    /\ form # <<>>
    /\ data # <<>>

\* the survey rows that have a type, a name and a label
KeptRows(sheet) ==
    {i \in 1..Len(sheet.rows) :
        \A c \in {"type", "name", "label"} : sheet.rows[i][c].k # "blank"}

\* C4: a successful import appends: the form before the call is a prefix of
\* the form after it, the imported questions follow in survey-row order, and
\* the data list is unchanged.
C4_ImportAppends ==
    [][(last'.op = "import" /\ last'.ok) =>
          LET sheet == last'.wb.survey
              kept == KeptRows(sheet)
              n == Len(form)
          IN /\ data' = data
             /\ Len(form') = n + Cardinality(kept)
             /\ SubSeq(form', 1, n) = form
             /\ \A i \in kept :
                   LET q == form'[n + Cardinality({j \in kept : j <= i})]
                   IN /\ q.name = sheet.rows[i]["name"].s
                      /\ q.label = sheet.rows[i]["label"].s]_vars

C4_Witness ==
    /\ last.op = "import"
    /\ last.ok
    /\ Len(last.wb.survey.rows) = 1
    /\ Len(form) = 2
    /\ form[1].name # form[2].name
    /\ data # <<>>

\* C12: the questions of one form have pairwise distinct ids, among them
\* the questions one import call created and questions added while the
\* clock reads the same millisecond.
C12_DistinctIds ==
    \A i, j \in 1..Len(form) : i # j => form[i].id # form[j].id

\* C16: every action changes the data list by at most one record, an
\* append at the end by a submit or the removal of the record at the given
\* position by a delete submission, and changes no record that remains; no
\* form-designer operation (add, import, move, delete, clear) changes it.
C16_DataChanges ==
    [][\/ data' = data
       \/ /\ last'.op = "submit"
          /\ Len(data') = Len(data) + 1
          /\ SubSeq(data', 1, Len(data)) = data
       \/ /\ last'.op = "delsub"
          /\ last'.idx \in 1..Len(data)
          /\ data' = [i \in 1..(Len(data) - 1) |->
                         IF i < last'.idx THEN data[i] ELSE data[i + 1]]]_vars

\* C21: the type of every question of the form is one of text, integer,
\* decimal, date, select_one, select_multiple, note, whatever sequence of
\* add and import ran, for imports of any survey row whose type, name and
\* label are not blank.
C21_TypeEnum ==
    \A i \in 1..Len(form) : form[i].type \in DesignerTypes

\* C22: a question has choices only if its type is select_one or
\* select_multiple: every question of another type, added in the designer
\* (with or without text left in the choices box) or imported, has an empty
\* choices list.
C22_ChoicesOnlyForSelect ==
    \A i \in 1..Len(form) :
        form[i].choices # <<>> => form[i].type \in SelectTypes

\* a text question was added while the choices box held text, after a
\* select question came in with its choices
C22_Witness ==
    /\ last.op = "add"
    /\ last.ok
    /\ last.text # <<>>
    /\ Len(form) = 2
    /\ form[1].type \in SelectTypes
    /\ form[1].choices # <<>>
    /\ form[2].type = <<"text">>
    /\ form[2].choices = <<>>

----------------------------------------------------------------------------
(* Claims about the question list, checked under SpecDesigner.             *)

\* the form g is the form f with the questions at positions i and j
\* exchanged and every other position as it was
Exchanged(f, g, i, j) ==
    /\ Len(g) = Len(f)
    /\ g[i] = f[j]
    /\ g[j] = f[i]
    /\ \A k \in 1..Len(f) : k \notin {i, j} => g[k] = f[k]

\* C23: move up at position p exchanges the questions at p-1 and p when
\* p > 1 and changes nothing when p = 1; move down at p exchanges those at p
\* and p+1 when p is less than the form's length and changes nothing at the
\* last position; every other position and the data list stay as they were
\* (so the form keeps the same questions with their fields); and a move down
\* at p followed by a move up at p+1 gives back the form the move down
\* started from.
C23_Moves ==
    [][/\ last'.op = "moveup" =>
             LET p == last'.idx
             IN /\ p \in 1..Len(form)
                /\ data' = data
                /\ IF p > 1 THEN Exchanged(form, form', p - 1, p)
                   ELSE form' = form
                /\ (last'.prior.op = "movedown" /\ p = last'.prior.idx + 1)
                       => form' = last'.prior.from
       /\ last'.op = "movedown" =>
             LET p == last'.idx
             IN /\ p \in 1..Len(form)
                /\ data' = data
                /\ IF p < Len(form) THEN Exchanged(form, form', p, p + 1)
                   ELSE form' = form]_vars

\* #2 of 3 different questions was moved down and then #3 moved up, with a
\* record in the data list
C23_Witness ==
    /\ last.op = "moveup"
    /\ last.idx = 3
    /\ last.prior.op = "movedown"
    /\ last.prior.idx = 2
    /\ Len(form) = 3
    /\ form[2] # form[3]
    /\ form[1] # form[2]
    /\ last.prior.form # form
    /\ last.prior.from = form
    /\ data # <<>>

\* C17: deleting the question at position p removes exactly that question:
\* the form is one shorter, the questions before p stay where they are and
\* those after p move up by one with all their fields, and the data list is
\* unchanged, also when a record holds the removed question's name.
C17_DeleteQuestion ==
    [][last'.op = "delete" =>
          LET p == last'.idx
          IN /\ p \in 1..Len(form)
             /\ Len(form') = Len(form) - 1
             /\ \A i \in 1..(p - 1) : form'[i] = form[i]
             /\ \A i \in p..Len(form') : form'[i] = form[i + 1]
             /\ data' = data]_vars

\* #2 of 3 was deleted and the record still holds its name
C17_Witness ==
    /\ last.op = "delete"
    /\ last.idx = 2
    /\ Len(form) = 2
    /\ form[1].name # form[2].name
    /\ data # <<>>
    /\ \E key \in DOMAIN data[1] :
          key \notin {form[i].name : i \in 1..Len(form)} \cup {SubmissionTime}

----------------------------------------------------------------------------
(* Claims about the collect form, checked under SpecCollect.               *)

\* absent (or null), the empty string, the empty list or the number zero
ValueMissing(entry, name) ==
    \/ name \notin DOMAIN entry
    \/ entry[name] = NoneVal
    \/ entry[name] = StrVal(<<>>)
    \/ entry[name] = ListVal(<<>>)
    \/ entry[name] = FloatVal(0)

\* the labels of the questions at the positions in S, in form order
LabelsAt(f, S) ==
    [k \in 1..Cardinality(S) |->
        f[CHOOSE i \in S : Cardinality({j \in S : j < i}) = k - 1].label]

\* C5: a submit fails, leaving the data list as it was, whenever a required
\* question has a missing value in the entry, and reports exactly the labels
\* of those questions in form order; with no such question it succeeds.
C5_SubmitValidation ==
    [][last'.op = "submit" =>
          LET bad == {i \in 1..Len(form) :
                         form[i].required
                         /\ ValueMissing(last'.entry, form[i].name)}
          IN /\ bad # {} => /\ ~last'.ok
                            /\ data' = data
                            /\ last'.missing = LabelsAt(form, bad)
             /\ bad = {} => last'.ok]_vars

C5_Witness ==
    /\ last.op = "submit"
    /\ ~last.ok
    /\ Len(form) = 2
    /\ form[1].type = <<"select_multiple">> /\ form[1].required
    /\ last.entry[form[1].name] = ListVal(<<>>)
    /\ last.missing = <<form[1].label, form[2].label>>
    /\ form[1].label # form[2].label

\* C6: a submit that passes validation appends one record at the end of
\* data and leaves the earlier records alone; the record holds every
\* key and value of the entry, and its _submission_time is the timestamp
\* taken at submission.
C6_SubmitAppends ==
    [][(last'.op = "submit" /\ last'.ok) =>
          /\ Len(data') = Len(data) + 1
          /\ SubSeq(data', 1, Len(data)) = data
          /\ LET rec == data'[Len(data')]
             IN /\ \A key \in DOMAIN last'.entry : rec[key] = last'.entry[key]
                /\ rec[<<"_submission_time">>] = StrVal(isoformat(clock))]_vars

\* C7: after a submit that passes validation no value of the appended record
\* is a date object (every value is a string, a number, a list or null), and
\* the save that follows has written the document.
C7_NoDateStored ==
    (last.op = "submit" /\ last.ok) =>
        /\ \A key \in DOMAIN data[Len(data)] :
              data[Len(data)][key].k \in {"str", "num", "list", "none"}
        /\ file.valid

\* the collect form produces no value for question q: a note, or a question
\* of a type that is none of the seven it handles
NoValue(q) == q.type = <<"note">> \/ q.type \notin DesignerTypes

\* the required questions of the form f that get no value
Blocking(f) == {i \in 1..Len(f) : f[i].required /\ NoValue(f[i])}

\* C25: while the form holds a required question that gets no value (a
\* note, or an imported question of a type that is none of the seven), every
\* submit fails, reports that question's label as missing and leaves the
\* data list as it was, and no step appends a record.
C25_RequiredNoValueBlocks ==
    [][Blocking(form) # {} =>
          /\ Len(data') <= Len(data)
          /\ last'.op = "submit" =>
                /\ ~last'.ok
                /\ data' = data
                /\ \A i \in Blocking(form) :
                      \E k \in 1..Len(last'.missing) :
                          last'.missing[k] = form[i].label]_vars

----------------------------------------------------------------------------
(* Claims about the schema codec, checked under SpecCodec.                 *)

\* C1: exporting a form and importing the result into an empty form gives
\* back the same questions, position by position: name, label, type,
\* required flag and choices in order.
C1_RoundTrip ==
    last.op = "reimport" => Contents(last.out) = Contents(form)

\* C8: export emits one survey row per question, in form order, with the
\* columns type, name, label, required; the type cell is "<type> <name>" for
\* select_one and select_multiple and the bare type otherwise, name and label
\* are the question's own, required is "yes" for a required question and the
\* empty string otherwise.
C8_SurveyRows ==
    last.op = "export" =>
        /\ Len(last.survey) = Len(form)
        /\ \A i \in 1..Len(form) :
              LET q == form[i]
                  r == last.survey[i]
              IN /\ DOMAIN r = {"type", "name", "label", "required"}
                 /\ r.type = (IF q.type \in {<<"select_one">>, <<"select_multiple">>}
                              THEN q.type \o <<" ">> \o q.name ELSE q.type)
                 /\ r.name = q.name
                 /\ r.label = q.label
                 /\ r.required = (IF q.required THEN <<"yes">> ELSE <<>>)

C8_Witness ==
    /\ last.op = "export"
    /\ Len(form) = 2
    /\ form[1].type = <<"select_multiple">> /\ form[1].required
    /\ form[2].type = <<"date">> /\ ~form[2].required
    /\ form[1].name # form[2].name

\* the number of choices of the questions before position i
RECURSIVE ChoicesBefore(_, _)
ChoicesBefore(f, i) ==
    IF i <= 1 THEN 0
    ELSE ChoicesBefore(f, i - 1) + Len(f[i - 1].choices)

\* C9: export emits exactly one choices row per choice of every question, in
\* form order and, within a question, in choice order: list_name is the
\* question's name, name is "opt" and the 1-based index of the choice, label
\* is the choice text; there is no other choices row.
C9_ChoiceRows ==
    last.op = "export" =>
        /\ Len(last.choices) = ChoicesBefore(form, Len(form) + 1)
        /\ \A i \in 1..Len(form) : \A j \in 1..Len(form[i].choices) :
              last.choices[ChoicesBefore(form, i) + j] =
                  [list_name |-> form[i].name,
                   name |-> <<"opt">> \o IntToStr(j),
                   label |-> form[i].choices[j]]

C9_Witness ==
    /\ last.op = "export"
    /\ Len(form) = 2
    /\ Len(form[1].choices) = 2 /\ Len(form[2].choices) = 2
    /\ form[1].name # form[2].name
    /\ Len(last.choices) = 4

\* what a cell of the uploaded sheet reads as
CellText(c) ==
    CASE c.k = "str" -> c.s
      [] c.k = "int" -> IntToStr(c.n)
      [] OTHER -> <<>>

\* C10: the required flag of the question imported from a survey row is true
\* exactly when the row's required cell, compared case-insensitively, is one
\* of yes, true, 1, required; a blank cell and an absent column give false.
C10_RequiredCell ==
    (last.op = "upload" /\ last.ok
        /\ Len(last.out) = Len(last.wb.survey.rows)) =>
        \A i \in 1..Len(last.out) :
            LET row == last.wb.survey.rows[i]
            IN last.out[i].required <=>
                  /\ "required" \in DOMAIN row
                  /\ Lower(CellText(row["required"])) \in
                         {<<"yes">>, <<"true">>, <<"1">>, <<"required">>}

\* the select keyword a type cell starts with, if any
SelectKeyword(cell) ==
    IF cell # <<>> /\ Head(cell) \in {"select_one", "select_multiple"}
    THEN <<Head(cell)>> ELSE <<>>

\* the text after the first space of the type cell or, without one, the name
ResolvedList(row) ==
    IF \E i \in 1..Len(row["type"].s) : row["type"].s[i] = " "
    THEN LET i == CHOOSE j \in 1..Len(row["type"].s) :
                     /\ row["type"].s[j] = " "
                     /\ \A k \in 1..(j - 1) : row["type"].s[k] # " "
         IN SubSeq(row["type"].s, i + 1, Len(row["type"].s))
    ELSE row["name"].s

\* the label of a choices row or, when it is blank or absent, its name
ChoiceTextOf(crow) ==
    IF "label" \in DOMAIN crow /\ crow["label"].k # "blank"
    THEN CellText(crow["label"]) ELSE CellText(crow["name"])

\* the choice texts of the rows of list ln, in sheet order, from row i on
RECURSIVE ChoicesOfList(_, _, _)
ChoicesOfList(crows, ln, i) ==
    IF i > Len(crows) THEN <<>>
    ELSE (IF CellText(crows[i]["list_name"]) = ln
          THEN <<ChoiceTextOf(crows[i])>> ELSE <<>>)
         \o ChoicesOfList(crows, ln, i + 1)

\* C11: the question imported from a survey row whose type cell starts with
\* select_one or select_multiple has that keyword as its type and, as its
\* choices, the texts of the choices rows of the resolved list in sheet
\* order (label, or name when the label is blank); a row of another type
\* gets no choices.
C11_ChoicesLookup ==
    (last.op = "upload" /\ last.ok /\ "choices" \in last.wb.sheets
        /\ Len(last.out) = Len(last.wb.survey.rows)) =>
        \A i \in 1..Len(last.out) :
            LET row == last.wb.survey.rows[i]
                kw == SelectKeyword(row["type"].s)
            IN IF kw # <<>>
               THEN /\ last.out[i].type = kw
                    /\ last.out[i].choices =
                           ChoicesOfList(last.wb.choices.rows,
                                         ResolvedList(row), 1)
               ELSE last.out[i].choices = <<>>

----------------------------------------------------------------------------
(* Claims about the credential store, checked under SpecAuth.              *)

\* the usernames of the rows of the file, as written
StoredUsernames == {users[i]["username"] : i \in 1..Len(users)}

\* C18: register with a username already in the store returns false and
\* leaves the store as it was; with a new username it returns true and adds
\* one row holding the username and the hash of the password, leaving the
\* other rows as they were.
C18_Register ==
    [][last'.op = "register" =>
          IF last'.user \in StoredUsernames
          THEN ~last'.ok /\ users' = users
          ELSE /\ last'.ok
               /\ users' = Append(users,
                      [username |-> last'.user,
                       password_hash |-> hash_password(last'.password)])]_vars

\* C19: authenticate returns true exactly when the username is in the store
\* and the password is the one of its first successful registration; it
\* leaves the rows of the store alone.
C19_Authenticate ==
    [][last'.op = "authenticate" =>
          /\ last'.ok <=> <<last'.user, last'.password>> \in registered
          /\ users' = users]_vars

----------------------------------------------------------------------------
(* Claims about one session and its projects, checked under SpecApp.       *)

\* C13: Create Project with a non-blank title adds exactly one project,
\* with an empty form and no data, under an id the owner's mapping did not
\* hold: the owner has one project more and every project that was there is
\* still there, unchanged, also when the clock reads the same millisecond as
\* at an earlier creation.  A blank title creates nothing.
C13_CreateProject ==
    [][last'.op = "create" =>
          LET u == sessions[last'.sid].user
              before == sessions[last'.sid].projects[u]
              after == sessions'[last'.sid].projects[u]
          IN IF Strip(last'.text) # <<>>
             THEN /\ last'.ok
                  /\ Cardinality(DOMAIN after) = Cardinality(DOMAIN before) + 1
                  /\ \A pid \in DOMAIN before :
                        pid \in DOMAIN after /\ after[pid] = before[pid]
                  /\ \A pid \in DOMAIN after \ DOMAIN before :
                        after[pid].form = <<>> /\ after[pid].data = <<>>
             ELSE ~last'.ok /\ sessions' = sessions]_vars

\* the actions that change the projects of a session
MutatingOps ==
    {"login", "create", "delproj", "rename", "add", "import", "moveup",
     "movedown", "delete", "clear", "submit", "delsub"}

\* C14: with one session, after every action that changed its projects the
\* persisted document equals the projects the session holds in memory.
C14_Persisted ==
    (last.op \in MutatingOps /\ last.ok) =>
        disk = [valid |-> TRUE, doc |-> sessions[last.sid].projects]

\* every project of the document doc is stored under its owner and its id
Owned(doc) ==
    \A u \in DOMAIN doc : \A pid \in DOMAIN doc[u] :
        doc[u][pid].owner = u /\ doc[u][pid].id = pid

\* C20: every project stored under a username has that username as owner
\* and its key as id, and no create, delete, rename, form, data or import
\* action of a session logged in as u adds, removes or changes an entry of
\* another username in the session's projects.
C20_OwnedExclusively ==
    /\ [](\A s \in Sessions : Owned(sessions[s].projects))
    /\ [](Owned(disk.doc))
    /\ [][\A s \in Sessions :
             (sessions[s].logged_in /\ last'.op # "login") =>
                 \A v \in (DOMAIN sessions[s].projects
                           \cup DOMAIN sessions'[s].projects)
                          \ {sessions[s].user} :
                     /\ v \in DOMAIN sessions[s].projects
                     /\ v \in DOMAIN sessions'[s].projects
                     /\ sessions'[s].projects[v] = sessions[s].projects[v]]_vars

\* a user changed a project of theirs while another user had one with data
C20_Witness ==
    /\ last.op = "rename"
    /\ sessions[1].logged_in
    /\ \E v \in DOMAIN sessions[1].projects \ {sessions[1].user} :
          \E pid \in DOMAIN sessions[1].projects[v] :
              sessions[1].projects[v][pid].data # <<>>

\* C24: in every session where a user is logged in, the current-project
\* pointer is unset or is the id of a project in that user's own project
\* mapping, whatever sequence of login (also as another user, from the
\* sidebar, without logging out), logout, open, create and delete ran; so
\* the lookup projects[user][current_project] finds its key.
C24_CurrentProjectValid ==
    \A s \in Sessions :
        (sessions[s].logged_in /\ sessions[s].current_project # <<>>) =>
            /\ sessions[s].user \in DOMAIN sessions[s].projects
            /\ sessions[s].current_project
                   \in DOMAIN sessions[s].projects[sessions[s].user]

----------------------------------------------------------------------------
(* Claims about two sessions on one document, checked under SpecShared.    *)

\* C15: every save replaces the whole persisted document with the copy of
\* the session that saves: after a create or a delete of a project, and
\* after any other step that wrote the file, the document is exactly what
\* that session holds in memory.
C15_LastWriterWins ==
    [][((last'.op \in {"create", "delproj"} /\ last'.ok) \/ disk' # disk) =>
          disk' = [valid |-> TRUE,
                   doc |-> sessions'[last'.sid].projects]]_vars

\* session 1 holds a project of another user that it saved or loaded, and
\* the document session 2 has just written does not hold it
C15_Witness ==
    /\ last.op = "create" /\ last.ok /\ last.sid = 2
    /\ \E u \in DOMAIN sessions[1].projects \ {sessions[2].user} :
          \E pid \in DOMAIN sessions[1].projects[u] :
              /\ sessions[1].projects[u][pid].owner = sessions[1].user
              /\ (u \notin DOMAIN disk.doc \/ pid \notin DOMAIN disk.doc[u])

====
